---- MODULE Spec2Model ----
(***************************************************************************)
(* Content-addressable artifact store: the CDN orchestrator and its HTTP   *)
(* handler (CDN.ts), the storage adapters (adapters/MemoryStorage.ts,      *)
(* adapters/R2Storage.ts) and the content-type table (types.ts), as a      *)
(* state machine of client calls and requests.                             *)
(*                                                                         *)
(* Every async method is cut at its awaits: the code between two awaits    *)
(* runs as one step, and other calls may run between two steps.            *)
(*                                                                         *)
(* Representation.  A JavaScript string is a sequence of one-character     *)
(* strings; MIME types and fixed texts, which the code never takes apart,  *)
(* are TLA+ strings.  An optional value is a sequence of length 0          *)
(* (undefined) or 1.  An object is a function from its own keys to         *)
(* optional values.  An ArrayBuffer is an entry of the heap; a Uint8Array  *)
(* is a window (buffer, byteOffset, length) onto one.                      *)
(***************************************************************************)
EXTENDS Integers, Sequences, FiniteSets, TLC

\* ------------------------------------------------------------------ bounds

\* Client calls issued in one behaviour.
MaxCalls == 3
\* Byte values a caller writes are 0..MaxByte.
MaxByte == 1
\* Longest ArrayBuffer a caller allocates.
MaxLen == 1
\* Date.now() returns a value in 0..MaxClock.
MaxClock == 1
\* Hex digits of a rendered digest.
DigestLen == 2

Calls == 1..MaxCalls

\* ------------------------------------------------------- optional values

None == <<>>

Some(x) == <<x>>

\* {}
EmptyObject == [k \in {} |-> None]

\* obj.key of a JavaScript object: undefined when the key is absent.
Field(obj, key) == IF key \in DOMAIN obj THEN obj[key] ELSE None

\* { ...a, ...b }: b's own keys win, also those whose value is undefined.
Spread(a, b) ==
  [k \in (DOMAIN a) \cup (DOMAIN b) |-> IF k \in DOMAIN b THEN b[k] ELSE a[k]]

\* Truthiness of an optional string (undefined and '' are falsy).
TruthyStr(opt) == opt # None /\ opt[1] # <<>>

\* The same for a MIME type, which is a TLA+ string.
TruthyMime(opt) == opt # None /\ opt[1] # ""

\* ---------------------------------------------------------------- strings

RECURSIVE SplitFrom(_, _, _)
\* s.split(sep) for a one-character sep, with cur the segment being read.
SplitFrom(s, sep, cur) ==
  IF s = <<>> THEN <<cur>>
  ELSE IF Head(s) = sep THEN <<cur>> \o SplitFrom(Tail(s), sep, <<>>)
  ELSE SplitFrom(Tail(s), sep, Append(cur, Head(s)))

Split(s, sep) == SplitFrom(s, sep, <<>>)

\* Array.prototype.pop's return value on a non-empty array.
Pop(arr) == arr[Len(arr)]

LowerChar(ch) ==
  CASE ch = "A" -> "a" [] ch = "B" -> "b" [] ch = "C" -> "c" [] ch = "D" -> "d"
    [] ch = "E" -> "e" [] ch = "F" -> "f" [] ch = "G" -> "g" [] ch = "H" -> "h"
    [] ch = "I" -> "i" [] ch = "J" -> "j" [] ch = "K" -> "k" [] ch = "L" -> "l"
    [] ch = "M" -> "m" [] ch = "N" -> "n" [] ch = "O" -> "o" [] ch = "P" -> "p"
    [] ch = "Q" -> "q" [] ch = "R" -> "r" [] ch = "S" -> "s" [] ch = "T" -> "t"
    [] ch = "U" -> "u" [] ch = "V" -> "v" [] ch = "W" -> "w" [] ch = "X" -> "x"
    [] ch = "Y" -> "y" [] ch = "Z" -> "z" [] OTHER -> ch

toLowerCase(s) == [i \in DOMAIN s |-> LowerChar(s[i])]

HexDigit(d) ==
  <<"0", "1", "2", "3", "4", "5", "6", "7", "8", "9", "a", "b", "c", "d", "e", "f">>[d + 1]

RECURSIVE ToHex(_, _)
\* n as w lowercase hex digits, most significant first.
ToHex(n, w) == IF w = 0 THEN <<>> ELSE Append(ToHex(n \div 16, w - 1), HexDigit(n % 16))

\* s.startsWith(p)
StartsWith(s, p) == Len(s) >= Len(p) /\ SubSeq(s, 1, Len(p)) = p

\* s.replace(p, r) for a string p: the first occurrence, if any, replaced.
ReplaceFirst(s, p, r) ==
  LET at == {i \in 1..(Len(s) - Len(p) + 1) : SubSeq(s, i, i + Len(p) - 1) = p}
  IN  IF at = {} THEN s
      ELSE LET i == CHOOSE x \in at : \A y \in at : x <= y
           IN  SubSeq(s, 1, i - 1) \o r \o SubSeq(s, i + Len(p), Len(s))

\* The value of a hex digit, and of a string of them.
HexVal(ch) == CHOOSE d \in 0..15 : HexDigit(d) = ch

RECURSIVE FromHex(_)
FromHex(s) == IF s = <<>> THEN 0 ELSE FromHex(SubSeq(s, 1, Len(s) - 1)) * 16 + HexVal(s[Len(s)])

RECURSIVE ToDec(_)
\* String(n), n a non-negative integer: its decimal digits.
ToDec(n) == IF n < 10 THEN <<HexDigit(n)>> ELSE Append(ToDec(n \div 10), HexDigit(n % 10))

RECURSIVE FromDec(_)
\* Number(s), s a string of decimal digits.
FromDec(s) == IF s = <<>> THEN 0 ELSE FromDec(SubSeq(s, 1, Len(s) - 1)) * 10 + HexVal(s[Len(s)])

\* ------------------------------------------------------------ types.ts

CONTENT_TYPES ==
  {    [ext |-> <<"j", "p", "g">>, type |-> "image/jpeg"],
       [ext |-> <<"j", "p", "e", "g">>, type |-> "image/jpeg"],
       [ext |-> <<"p", "n", "g">>, type |-> "image/png"],
       [ext |-> <<"g", "i", "f">>, type |-> "image/gif"],
       [ext |-> <<"w", "e", "b", "p">>, type |-> "image/webp"],
       [ext |-> <<"s", "v", "g">>, type |-> "image/svg+xml"],
       [ext |-> <<"i", "c", "o">>, type |-> "image/x-icon"],
       [ext |-> <<"p", "d", "f">>, type |-> "application/pdf"],
       [ext |-> <<"j", "s", "o", "n">>, type |-> "application/json"],
       [ext |-> <<"x", "m", "l">>, type |-> "application/xml"],
       [ext |-> <<"t", "x", "t">>, type |-> "text/plain"],
       [ext |-> <<"h", "t", "m", "l">>, type |-> "text/html"],
       [ext |-> <<"c", "s", "s">>, type |-> "text/css"],
       [ext |-> <<"c", "s", "v">>, type |-> "text/csv"],
       [ext |-> <<"j", "s">>, type |-> "application/javascript"],
       [ext |-> <<"m", "j", "s">>, type |-> "application/javascript"],
       [ext |-> <<"t", "s">>, type |-> "application/typescript"],
       [ext |-> <<"w", "a", "s", "m">>, type |-> "application/wasm"],
       [ext |-> <<"z", "i", "p">>, type |-> "application/zip"],
       [ext |-> <<"g", "z">>, type |-> "application/gzip"],
       [ext |-> <<"t", "a", "r">>, type |-> "application/x-tar"],
       [ext |-> <<"m", "p", "3">>, type |-> "audio/mpeg"],
       [ext |-> <<"m", "p", "4">>, type |-> "video/mp4"],
       [ext |-> <<"w", "e", "b", "m">>, type |-> "video/webm"],
       [ext |-> <<"o", "g", "g">>, type |-> "audio/ogg"],
       [ext |-> <<"w", "o", "f", "f">>, type |-> "font/woff"],
       [ext |-> <<"w", "o", "f", "f", "2">>, type |-> "font/woff2"],
       [ext |-> <<"t", "t", "f">>, type |-> "font/ttf"],
       [ext |-> <<"o", "t", "f">>, type |-> "font/otf"] }

\* CONTENT_TYPES is an object literal: CONTENT_TYPES[key] also finds what the
\* object inherits from Object.prototype.  Of the inherited names only these
\* two are their own lowercase; neither value is a string, both are truthy.
Inherited ==
  { [ext  |-> <<"c", "o", "n", "s", "t", "r", "u", "c", "t", "o", "r">>,
     type |-> "function Object"],
    [ext  |-> <<"_", "_", "p", "r", "o", "t", "o", "_", "_">>,
     type |-> "Object.prototype"] }

\* filename.split('.').pop()?.toLowerCase(), then CONTENT_TYPES[ext] or the
\* default.
detectContentType(filename, defaultType) ==
  LET ext == toLowerCase(Pop(Split(filename, ".")))
      hits == {e \in CONTENT_TYPES \cup Inherited : e.ext = ext}
  IN  IF ext # <<>> /\ hits # {}
      THEN (CHOOSE e \in hits : TRUE).type
      ELSE defaultType

\* ------------------------------------------------- bytes and the digest

\* The elements of a typed array: its window onto its ArrayBuffer.
Elements(hp, view) ==
  SubSeq(hp[view.buffer], view.byteOffset + 1, view.byteOffset + view.length)

\* new Uint8Array(arrayBuffer): the window over the whole buffer.
WholeView(hp, id) ==
  [kind |-> "Uint8Array", buffer |-> id, byteOffset |-> 0, length |-> Len(hp[id])]

\* content instanceof ArrayBuffer ? new Uint8Array(content) : content
AsUint8Array(hp, content) ==
  IF content.kind = "ArrayBuffer" THEN WholeView(hp, content.buffer) ELSE content

\* Array.from(bytes).map(b => String.fromCharCode(b)).join(''): one code
\* unit per byte, with the byte's value.
fromCharCodes(elems) == [i \in DOMAIN elems |-> elems[i]]

RECURSIVE Code(_)
\* The place of a code-unit string in an enumeration of all such strings.
Code(s) == IF s = <<>> THEN 0 ELSE Code(SubSeq(s, 1, Len(s) - 1)) * (MaxByte + 2) + s[Len(s)] + 1

\* sha256 of '@sygnl/normalizer', an external package: modelled by its
\* contract, a fixed-length lowercase hex digest that is a function of the
\* string alone and has no collisions on the strings of the model.
sha256(s) == ToHex(Code(s), DigestLen)

\* The digest of a byte sequence.
Digest(bytes) == sha256(fromCharCodes(bytes))

\* ------------------------------------------------- MemoryStorage.ts

\* The Map of MemoryStorage, in insertion order: a sequence of
\* [key, value] with no key twice.
MapHas(m, k) == \E i \in DOMAIN m : m[i].key = k

MapGet(m, k) ==
  IF MapHas(m, k) THEN Some(m[CHOOSE i \in DOMAIN m : m[i].key = k].value) ELSE None

\* Mutant of MapSet: a store that appends on every write, as an array would.
MapSet_append(m, k, v) == Append(m, [key |-> k, value |-> v])

\* Map.prototype.set: an existing key keeps its place and takes the value.
MapSet(m, k, v) ==
  IF MapHas(m, k)
  THEN [i \in DOMAIN m |-> IF m[i].key = k THEN [key |-> k, value |-> v] ELSE m[i]]
  ELSE Append(m, [key |-> k, value |-> v])

MapDelete_all(m, k) == <<>>

MapDelete(m, k) == LET Keep(e) == e.key # k IN SelectSeq(m, Keep)

MapKeys(m) == [i \in DOMAIN m |-> m[i].key]

\* The Map after MemoryStorage.put(hash, content, metadata), with dateNow
\* the value its Date.now() returns.
MemoryStorage_put(m, hp, hash, content, metadata, dateNow) ==
  LET bytes == AsUint8Array(hp, content)
  IN  MapSet(m, hash,
        [content  |-> bytes,
         metadata |-> Spread([size |-> Some(bytes.length), uploadedAt |-> Some(dateNow)],
                             metadata)])

\* The value MemoryStorage.get(hash) resolves to: the body is the typed
\* array's underlying ArrayBuffer.
MemoryStorage_get(m, hash) ==
  LET stored == MapGet(m, hash)
  IN  IF stored = None THEN None
      ELSE Some([hash     |-> hash,
                 body     |-> [kind |-> "ArrayBuffer", buffer |-> stored[1].content.buffer],
                 metadata |-> stored[1].metadata])

\* Mutant of MemoryStorage_delete_result: delete reports success without
\* looking, as `await bucket.delete(hash); return true` would.
MemoryStorage_delete_result_always(m, hash) == TRUE

\* The value MemoryStorage.delete(hash) resolves to (Map.prototype.delete's).
MemoryStorage_delete_result(m, hash) == MapHas(m, hash)

\* Mutant of MemoryStorage_delete: the entry is reported deleted and kept.
MemoryStorage_delete_keep(m, hash) == m

\* The Map after MemoryStorage.delete(hash).
MemoryStorage_delete(m, hash) == MapDelete(m, hash)

\* Mutant of MemoryStorage_exists: every digest is reported as stored.
MemoryStorage_exists_always(m, hash) == TRUE

MemoryStorage_exists(m, hash) == MapHas(m, hash)

\* hashes.slice(0, limit), limit a non-negative integer.
Slice0(arr, limit) == SubSeq(arr, 1, IF limit < Len(arr) THEN limit ELSE Len(arr))

MemoryStorage_list_orDefault(m, options) ==
  LET hashes == MapKeys(m)
      limit  == IF Field(options, "limit") \in {None, Some(0)}
                THEN 1000 ELSE Field(options, "limit")[1]
  IN  Slice0(hashes, limit)

MemoryStorage_list(m, options) ==
  LET hashes == MapKeys(m)
      limit  == IF Field(options, "limit") = None THEN 1000 ELSE Field(options, "limit")[1]
  IN  Slice0(hashes, limit)

\* ------------------------------------------------------ R2Storage.ts
\* The bucket is Cloudflare's, outside the repository: modelled by the
\* contract of R2Bucket, a map from key to object in which put replaces, get
\* and head return the object or null, delete removes, and list returns the
\* keys in lexicographic order.  An object holds a copy of the bytes put.

\* The bucket after R2Storage.put(hash, content, metadata), with dateNow the
\* value Date.now() returns.
R2Storage_put(b, hp, hash, content, metadata, dateNow) ==
  LET body       == Elements(hp, AsUint8Array(hp, content))
      filename   == Field(metadata, "filename")
      uploadedAt == Field(metadata, "uploadedAt")
      custom     == Field(metadata, "customMetadata")
  IN  MapSet(b, hash,
        [body           |-> body,
         httpMetadata   |-> [contentType |-> Field(metadata, "contentType")],
         customMetadata |->
           Spread([filename   |-> IF TruthyStr(filename) THEN filename[1] ELSE <<>>,
                   uploadedAt |-> ToDec(IF uploadedAt # None /\ uploadedAt[1] # 0
                                        THEN uploadedAt[1] ELSE dateNow)],
                  IF custom = None THEN EmptyObject ELSE custom[1]),
         size           |-> Len(body),
         uploaded       |-> dateNow])

\* The value R2Storage.get(hash) resolves to.
R2Storage_get(b, hash) ==
  LET obj == MapGet(b, hash)
  IN  IF obj = None THEN None
      ELSE Some([hash     |-> hash,
                 body     |-> [kind |-> "ReadableStream", bytes |-> obj[1].body],
                 metadata |->
                   [contentType    |-> obj[1].httpMetadata.contentType,
                    filename       |-> Some(obj[1].customMetadata.filename),
                    size           |-> Some(obj[1].size),
                    uploadedAt     |->
                      IF obj[1].customMetadata.uploadedAt # <<>>
                      THEN Some(FromDec(obj[1].customMetadata.uploadedAt)) ELSE None,
                    customMetadata |-> Some(obj[1].customMetadata)]])

\* Mutant of R2Storage_exists: head is taken to find every key.
R2Storage_exists_always(b, hash) == TRUE

\* R2Storage.exists: bucket.head(hash) !== null.
R2Storage_exists(b, hash) == MapGet(b, hash) # None

RECURSIVE SortKeys(_)
\* A set of digests in lexicographic order.
SortKeys(S) ==
  IF S = {} THEN <<>>
  ELSE LET least == CHOOSE x \in S : \A y \in S : FromHex(x) <= FromHex(y)
       IN  <<least>> \o SortKeys(S \ {least})

\* R2Storage.list: the keys of bucket.list({limit: options.limit ?? 1000}).
R2Storage_list(b, options) ==
  LET limit == IF Field(options, "limit") = None THEN 1000 ELSE Field(options, "limit")[1]
  IN  Slice0(SortKeys({b[i].key : i \in DOMAIN b}), limit)

\* ------------------------------------------------ this.storage, either

storage_put(this, m, hp, hash, content, metadata, dateNow) ==
  IF this.storage.class = "R2Storage"
  THEN R2Storage_put(m, hp, hash, content, metadata, dateNow)
  ELSE MemoryStorage_put(m, hp, hash, content, metadata, dateNow)

storage_get(this, m, hash) ==
  IF this.storage.class = "R2Storage" THEN R2Storage_get(m, hash)
  ELSE MemoryStorage_get(m, hash)

storage_exists(this, m, hash) ==
  IF this.storage.class = "R2Storage" THEN R2Storage_exists(m, hash)
  ELSE MemoryStorage_exists(m, hash)

storage_list(this, m, options) ==
  IF this.storage.class = "R2Storage" THEN R2Storage_list(m, options)
  ELSE MemoryStorage_list(m, options)

\* this.storage.delete(hash) up to its first await.  MemoryStorage.delete
\* removes and answers at once.  R2Storage.delete first asks exists
\* (bucket.head) and returns false when it says no; the removal is the step
\* after (DeleteRemove).
delete_start(this, m, hash) ==
  IF this.storage.class = "R2Storage"
  THEN [storage |-> m,
        pc      |-> IF R2Storage_exists(m, hash) THEN "removing" ELSE "awaiting",
        exists  |-> R2Storage_exists(m, hash),
        result  |-> FALSE]
  ELSE [storage |-> MemoryStorage_delete(m, hash),
        pc      |-> "awaiting",
        exists  |-> FALSE,
        result  |-> MemoryStorage_delete_result(m, hash)]

\* ------------------------------------------------------------- CDN.ts

\* baseUrl.replace(/\/$/, '')
StripTrailingSlash(s) ==
  IF s # <<>> /\ s[Len(s)] = "/" THEN SubSeq(s, 1, Len(s) - 1) ELSE s

\* a ?? b
Nullish(opt, default) == IF opt = None THEN default ELSE opt[1]

\* The fields of a CDN after its constructor.
Constructor(options) ==
  [storage            |-> Field(options, "storage")[1],
   baseUrl            |-> StripTrailingSlash(Field(options, "baseUrl")[1]),
   cacheMaxAge        |-> Nullish(Field(options, "cacheMaxAge"), 31536000),
   defaultContentType |-> Nullish(Field(options, "defaultContentType"), "application/octet-stream"),
   cors               |-> Nullish(Field(options, "cors"), TRUE)]

\* Mutant of list_outcome: an adapter without list lists nothing.
list_outcome_empty(this, m, options) == [threw |-> None, value |-> <<>>]

\* CDN.list: throws when the adapter has no list method, else returns what
\* the adapter's list returns.
list_outcome(this, m, options) ==
  IF ~this.storage.list
  THEN [threw |-> Some("Storage adapter does not support list()"), value |-> <<>>]
  ELSE [threw |-> None, value |-> storage_list(this, m, options)]

\* Mutant of put_hash: the digest is taken over the whole underlying
\* ArrayBuffer of a typed array, not over its window.
put_hash_wholeBuffer(hp, content, metadata, this) ==
  sha256(fromCharCodes(hp[content.buffer]))

\* Mutant of put_hash: the filename's length is hashed with the bytes.
put_hash_withFilename(hp, content, metadata, this) ==
  sha256(fromCharCodes(Elements(hp, AsUint8Array(hp, content)))
         \o (IF Field(metadata, "filename") = None THEN <<>>
             ELSE <<Len(Field(metadata, "filename")[1])>>))

\* CDN.put, the digest: the hash of the bytes of the content.
put_hash(hp, content, metadata, this) ==
  sha256(fromCharCodes(Elements(hp, AsUint8Array(hp, content))))

\* Mutant of put_contentType: the filename's type before the caller's.
put_contentType_filenameFirst(metadata, this) ==
  IF TruthyStr(Field(metadata, "filename"))
  THEN detectContentType(Field(metadata, "filename")[1], this.defaultContentType)
  ELSE IF TruthyMime(Field(metadata, "contentType")) THEN Field(metadata, "contentType")[1]
       ELSE this.defaultContentType

\* CDN.put, the content type: the caller's, else the filename's, else the
\* default.
put_contentType(metadata, this) ==
  IF TruthyMime(Field(metadata, "contentType")) THEN Field(metadata, "contentType")[1]
  ELSE IF TruthyStr(Field(metadata, "filename"))
       THEN detectContentType(Field(metadata, "filename")[1], this.defaultContentType)
       ELSE this.defaultContentType

\* Mutant of put_fullMetadata: the caller's size, when given, is kept.
put_fullMetadata_callerSize(bytes, metadata, this, dateNow) ==
  [contentType    |-> Some(put_contentType(metadata, this)),
   filename       |-> Field(metadata, "filename"),
   size           |-> IF Field(metadata, "size") # None THEN Field(metadata, "size")
                      ELSE Some(bytes.length),
   uploadedAt     |-> Some(dateNow),
   customMetadata |-> Field(metadata, "customMetadata")]

\* CDN.put, fullMetadata.
put_fullMetadata(bytes, metadata, this, dateNow) ==
  [contentType    |-> Some(put_contentType(metadata, this)),
   filename       |-> Field(metadata, "filename"),
   size           |-> Some(bytes.length),
   uploadedAt     |-> Some(dateNow),
   customMetadata |-> Field(metadata, "customMetadata")]

\* CDN.put, the url: metadata.filename?.split('.').pop() appended when
\* truthy.
put_url(hash, metadata, this) ==
  LET filename == Field(metadata, "filename")
      ext      == IF filename = None THEN None ELSE Some(Pop(Split(filename[1], ".")))
      urlPath  == IF TruthyStr(ext) THEN hash \o <<".">> \o ext[1] ELSE hash
  IN  this.baseUrl \o <<"/", "a", "/">> \o urlPath

\* Mutant of put_result: created is exists, the negation lost.
put_result_inverted(hash, url, exists, fullMetadata) ==
  [hash |-> hash, url |-> url, created |-> exists, metadata |-> fullMetadata]

\* CDN.put, the UploadResult.
put_result(hash, url, exists, fullMetadata) ==
  [hash |-> hash, url |-> url, created |-> ~exists, metadata |-> fullMetadata]

\* --- CDN.handleRequest
\* A request is its method, url.pathname, the `filename` query parameter,
\* the X-Filename and Content-Type headers (absent: undefined) and its body.

\* Mutant of Route: any method on /artifact uploads.
\* new URL(url).pathname for a url of the form scheme://host/path: from the
\* first '/' after the host to the end, or to a '?' or '#'; "/" when the url
\* has no path.
URL_pathname(url) ==
  LET host  == (CHOOSE i \in 1..Len(url) - 2 :
                  /\ SubSeq(url, i, i + 2) = <<":", "/", "/">>
                  /\ \A k \in 1..(i - 1) : SubSeq(url, k, k + 2) # <<":", "/", "/">>) + 3
      stops == {i \in host..Len(url) : url[i] \in {"?", "#"}}
      end   == IF stops = {} THEN Len(url)
               ELSE (CHOOSE i \in stops : \A k \in stops : i <= k) - 1
      slash == {i \in host..end : url[i] = "/"}
  IN  IF slash = {} THEN <<"/">>
      ELSE SubSeq(url, CHOOSE i \in slash : \A k \in slash : i <= k, end)

Route_anyMethod(request) ==
  IF request.pathname = <<"/", "a", "r", "t", "i", "f", "a", "c", "t">> THEN "put"
  ELSE IF request.method = "GET" /\ StartsWith(request.pathname, <<"/", "a", "/">>)
  THEN "get"
  ELSE IF request.method = "DELETE" /\ StartsWith(request.pathname, <<"/", "a", "/">>)
  THEN "delete"
  ELSE IF request.method = "OPTIONS" THEN "options"
  ELSE "notFound"

\* The branch of handleRequest a request takes.
Route(request) ==
  IF request.method = "PUT" /\ request.pathname = <<"/", "a", "r", "t", "i", "f", "a", "c", "t">>
  THEN "put"
  ELSE IF request.method = "GET" /\ StartsWith(request.pathname, <<"/", "a", "/">>)
  THEN "get"
  ELSE IF request.method = "DELETE" /\ StartsWith(request.pathname, <<"/", "a", "/">>)
  THEN "delete"
  ELSE IF request.method = "OPTIONS" THEN "options"
  ELSE "notFound"

\* Mutant of request_hash: the extension stays on the hash.
request_hash_keepExt(request) ==
  ReplaceFirst(request.pathname, <<"/", "a", "/">>, <<>>)

\* url.pathname.replace('/a/', '').split('.')[0]
request_hash(request) ==
  Split(ReplaceFirst(request.pathname, <<"/", "a", "/">>, <<>>), ".")[1]

\* The metadata PUT /artifact passes to put: { filename, contentType }.
request_metadata_headerFirst(request) ==
  [filename    |-> IF TruthyStr(request.xFilename) THEN request.xFilename
                   ELSE IF TruthyStr(request.query) THEN request.query
                   ELSE None,
   contentType |-> IF TruthyMime(request.contentType) THEN request.contentType ELSE None]

request_metadata(request) ==
  [filename    |-> IF TruthyStr(request.query) THEN request.query
                   ELSE IF TruthyStr(request.xFilename) THEN request.xFilename
                   ELSE None,
   contentType |-> IF TruthyMime(request.contentType) THEN request.contentType ELSE None]

\* Headers are functions from header name to value.
CORSHeaders ==
  ("Access-Control-Allow-Origin" :> "*")
    @@ ("Access-Control-Allow-Methods" :> "GET, PUT, DELETE, OPTIONS")
    @@ ("Access-Control-Allow-Headers" :> "Content-Type, X-Filename")
    @@ ("Access-Control-Max-Age" :> "86400")

\* Mutant of getCORSHeaders: the additional headers alone when there are any.
getCORSHeaders_onlyBare(this, additionalHeaders) ==
  IF ~this.cors \/ DOMAIN additionalHeaders # {} THEN additionalHeaders
  ELSE CORSHeaders

\* getCORSHeaders: the additional headers, after the four CORS headers when
\* cors is on.
getCORSHeaders(this, additionalHeaders) ==
  IF ~this.cors THEN additionalHeaders
  ELSE [k \in (DOMAIN CORSHeaders) \cup (DOMAIN additionalHeaders) |->
          IF k \in DOMAIN additionalHeaders THEN additionalHeaders[k] ELSE CORSHeaders[k]]

NoHeaders == [k \in {} |-> ""]

\* JSON.stringify of an object: the keys whose value is undefined are left
\* out.
Json(obj) == [k \in {x \in DOMAIN obj : obj[x] # None} |-> obj[k]]

\* Mutant of CacheControl: the default max-age, whatever was configured.
CacheControl_default(cacheMaxAge) ==
  <<"p", "u", "b", "l", "i", "c", ",", " ", "m", "a", "x", "-", "a", "g", "e", "=">>
    \o ToDec(31536000)
    \o <<",", " ", "i", "m", "m", "u", "t", "a", "b", "l", "e">>

\* `public, max-age=${cacheMaxAge}, immutable`
CacheControl(cacheMaxAge) ==
  <<"p", "u", "b", "l", "i", "c", ",", " ", "m", "a", "x", "-", "a", "g", "e", "=">>
    \o ToDec(cacheMaxAge)
    \o <<",", " ", "i", "m", "m", "u", "t", "a", "b", "l", "e">>

\* `"${hash}"`
ETag(hash) == <<"\"">> \o hash \o <<"\"">>

\* The Response of the PUT /artifact branch: put returned result, or threw.
put_response(this, result, threw) ==
  IF threw # None
  THEN [status  |-> 500,
        body    |-> [kind |-> "json", value |-> [error |-> threw[1]]],
        headers |-> getCORSHeaders(this, ("Content-Type" :> "application/json"))]
  ELSE [status  |-> 200,
        body    |-> [kind |-> "json",
                     value |-> [result EXCEPT !.metadata = Json(result.metadata)]],
        headers |-> getCORSHeaders(this, ("Content-Type" :> "application/json"))]

\* The Response of the GET /a/ branch: get returned artifact (or null), or
\* threw.
get_response(this, hash, artifact, threw) ==
  IF threw # None
  THEN [status  |-> 500,
        body    |-> [kind |-> "text", value |-> "Internal server error"],
        headers |-> getCORSHeaders(this, NoHeaders)]
  ELSE IF artifact = None
  THEN [status  |-> 404,
        body    |-> [kind |-> "text", value |-> "Not found"],
        headers |-> getCORSHeaders(this, NoHeaders)]
  ELSE [status  |-> 200,
        body    |-> [kind |-> "bytes", value |-> artifact[1].body],
        headers |->
          getCORSHeaders(this,
            ("Content-Type" :> (IF TruthyMime(artifact[1].metadata.contentType)
                                THEN artifact[1].metadata.contentType[1]
                                ELSE this.defaultContentType))
              @@ ("Cache-Control" :> CacheControl(this.cacheMaxAge))
              @@ ("ETag" :> ETag(hash)))]

\* Mutant of delete_response: 200 whatever delete returned.
delete_response_always(this, hash, deleted, threw) ==
  IF threw # None
  THEN [status  |-> 500,
        body    |-> [kind |-> "text", value |-> "Internal server error"],
        headers |-> getCORSHeaders(this, NoHeaders)]
  ELSE [status  |-> 200,
        body    |-> [kind |-> "json", value |-> [deleted |-> TRUE, hash |-> hash]],
        headers |-> getCORSHeaders(this, ("Content-Type" :> "application/json"))]

\* The Response of the DELETE /a/ branch: delete returned deleted, or threw.
delete_response(this, hash, deleted, threw) ==
  IF threw # None
  THEN [status  |-> 500,
        body    |-> [kind |-> "text", value |-> "Internal server error"],
        headers |-> getCORSHeaders(this, NoHeaders)]
  ELSE IF ~deleted
  THEN [status  |-> 404,
        body    |-> [kind |-> "text", value |-> "Not found"],
        headers |-> getCORSHeaders(this, NoHeaders)]
  ELSE [status  |-> 200,
        body    |-> [kind |-> "json", value |-> [deleted |-> TRUE, hash |-> hash]],
        headers |-> getCORSHeaders(this, ("Content-Type" :> "application/json"))]

\* The Response to OPTIONS on a path no branch above took.
options_response(this) ==
  [status |-> 204, body |-> [kind |-> "null"], headers |-> getCORSHeaders(this, NoHeaders)]

\* The Response when no branch took the request.
notFound_response(this) ==
  [status  |-> 404,
   body    |-> [kind |-> "text", value |-> "Not found"],
   headers |-> getCORSHeaders(this, NoHeaders)]

\* ------------------------------------------------------ state machine

VARIABLES
  this,     \* the CDN's fields, set by its constructor
  storage,  \* MemoryStorage.storage, the Map; over R2Storage, the bucket
  heap,     \* the bytes of the ArrayBuffer each call's caller allocated
  now,      \* the last value Date.now() returned
  calls     \* the client calls: arguments, position, locals, result

vars == <<this, storage, heap, now, calls>>

NoContent == [kind |-> "none", buffer |-> 0, byteOffset |-> 0, length |-> 0]

IdleCall ==
  [op |-> "none", pc |-> "idle", content |-> NoContent, metadata |-> EmptyObject,
   hashArg |-> <<>>, options |-> EmptyObject, bytes |-> NoContent, hash |-> <<>>,
   exists |-> FALSE, fullMetadata |-> EmptyObject, adapterCalls |-> <<>>,
   result |-> <<>>, threw |-> None, request |-> None, response |-> None]

\* --- what clients pass

\* The buffer a caller allocates: MaxLen bytes, the i-th holding i.
Pattern == [i \in 1..MaxLen |-> i % (MaxByte + 1)]

\* The buffer itself, a Uint8Array over all of it, and one over all but
\* its first byte.
ContentShapes ==
  { [kind |-> "ArrayBuffer", data |-> Pattern, byteOffset |-> 0, length |-> MaxLen],
    [kind |-> "Uint8Array", data |-> Pattern, byteOffset |-> 0, length |-> MaxLen],
    [kind |-> "Uint8Array", data |-> Pattern, byteOffset |-> 1, length |-> MaxLen - 1] }

\* The bytes each of them stands for.
ByteSeqs == {SubSeq(s.data, s.byteOffset + 1, s.byteOffset + s.length) : s \in ContentShapes}

\* What a caller passes as metadata: nothing, or a file's name with a
\* size of its own and custom metadata.
MetadataArgs ==
  { EmptyObject,
    [filename       |-> Some(<<"a", ".", "p", "n", "g">>),
     contentType    |-> Some("text/html"),
     size           |-> Some(7),
     customMetadata |-> Some([author |-> "x"])] }

\* Metadata for what put makes of contentType and filename: neither, either,
\* both, a filename without an extension, and an empty contentType.
TypeMetadataArgs ==
  { EmptyObject,
    [filename |-> Some(<<"a", ".", "p", "n", "g">>)],
    [contentType |-> Some("text/html")],
    [filename |-> Some(<<"a", ".", "p", "n", "g">>), contentType |-> Some("text/html")],
    [filename |-> Some(<<"n">>)],
    [filename |-> Some(<<"a", ".", "p", "n", "g">>), contentType |-> Some("")] }

\* Filenames for detectContentType: empty, without a dot, a table key without
\* a dot, a known extension in both cases, an unknown one, a name Object
\* has, and a trailing dot.
Filenames ==
  { <<>>,
    <<"n">>,
    <<"p", "n", "g">>,
    <<"a", ".", "p", "n", "g">>,
    <<"a", ".", "P", "N", "G">>,
    <<"a", ".", "x", "y">>,
    <<"a", ".", "c", "o", "n", "s", "t", "r", "u", "c", "t", "o", "r">>,
    <<"a", ".">> }

\* Its second argument: left out, or a type.
DefaultTypeArgs == {None, Some("text/plain")}

\* Filenames a put's url is built from: none, one extension, no dot, and
\* several dots.
UrlMetadataArgs ==
  { EmptyObject,
    [filename |-> Some(<<"a", ".", "p", "n", "g">>)],
    [filename |-> Some(<<"n">>)],
    [filename |-> Some(<<"a", ".", "t", "a", "r", ".", "g", "z">>)] }

\* Every digest a payload of the model has.
HashArgs == {sha256(fromCharCodes(d)) : d \in ByteSeqs}

RaceMetadataArgs == {EmptyObject}

ListOptions == {EmptyObject, [limit |-> Some(1)], [limit |-> Some(0)]}

\* A MemoryStorage, and an adapter that keeps its artifacts as MemoryStorage
\* does and has no list method (list is optional in StorageAdapter).
MemoryAdapter == [class |-> "MemoryStorage", list |-> TRUE]

NoListAdapter == [class |-> "MemoryStorage", list |-> FALSE]

R2Adapter == [class |-> "R2Storage", list |-> TRUE]

R2OptionsArgs ==
  { [storage |-> Some(R2Adapter),
     baseUrl |-> Some(<<"h", ":", "/", "/", "c", ".", "i", "o">>)] }

OptionsArgs ==
  { [storage |-> Some(MemoryAdapter),
     baseUrl |-> Some(<<"h", ":", "/", "/", "c", ".", "i", "o">>)],
    [storage            |-> Some(NoListAdapter),
     baseUrl            |-> Some(<<"h", ":", "/", "/", "c", ".", "i", "o", "/", "c", "d", "n", "/">>),
     cacheMaxAge        |-> Some(3600),
     defaultContentType |-> Some("text/plain"),
     cors               |-> Some(FALSE)] }

\* The requests clients send.
Pathname(hash, ext) == <<"/", "a", "/">> \o hash \o ext

Artifact == <<"/", "a", "r", "t", "i", "f", "a", "c", "t">>

Request(method, pathname) ==
  [method |-> method, pathname |-> pathname, query |-> None, xFilename |-> None,
   contentType |-> None, body |-> <<>>]

PutRequests ==
  UNION {{ [Request("PUT", Artifact) EXCEPT !.body = b],
           [Request("PUT", Artifact) EXCEPT
              !.body = b,
              !.query = Some(<<"a", ".", "p", "n", "g">>),
              !.xFilename = Some(<<"b", ".", "t", "x", "t">>),
              !.contentType = Some("text/html")] } : b \in ByteSeqs}
  \cup { [Request("PUT", Artifact) EXCEPT
            !.body = Pattern,
            !.xFilename = Some(<<"b", ".", "t", "x", "t">>)],
         [Request("PUT", Artifact) EXCEPT
            !.body = Pattern,
            !.query = Some(<<>>),
            !.xFilename = Some(<<"b", ".", "t", "x", "t">>)] }

\* GET and DELETE of the digest of the longest payload, bare and with an
\* extension, and of the other digests, bare.
HashRequests ==
  LET long == Digest(Pattern)
  IN  {Request(m, Pathname(h, <<>>)) : m \in {"GET", "DELETE"}, h \in HashArgs}
      \cup {Request(m, Pathname(long, <<".", "t", "a", "r", ".", "g", "z">>)) : m \in {"GET", "DELETE"}}

OtherRequests ==
  { Request("OPTIONS", Artifact),
    Request("OPTIONS", Pathname(Digest(Pattern), <<>>)),
    Request("GET", <<"/", "u", "n", "k", "n", "o", "w", "n">>),
    Request("POST", Artifact),
    Request("PUT", Pathname(Digest(Pattern), <<>>)),
    Request("DELETE", Artifact) }

Requests == PutRequests \cup HashRequests \cup OtherRequests

\* What an adapter that cannot reach its backend throws: an Error with this
\* message.
AdapterError == "backend unavailable"

\* --- positions

InFlight(c) == calls[c].pc \notin {"idle", "done"}

\* Slot c is the next free one.
NextSlot(c) == calls[c].op = "none" /\ \A d \in Calls : d < c => calls[d].op # "none"

\* A client that awaits each call before it makes the next.
Sequential == \A d \in Calls : ~InFlight(d)

Init ==
  /\ this \in {Constructor(o) : o \in OptionsArgs}
  /\ storage = <<>>
  /\ heap = [c \in Calls |-> <<>>]
  /\ now = 0
  /\ calls = [c \in Calls |-> IdleCall]

\* The same, with the CDN constructed over an R2Storage and its bucket empty.
InitR2 ==
  /\ this \in {Constructor(o) : o \in R2OptionsArgs}
  /\ storage = <<>>
  /\ heap = [c \in Calls |-> <<>>]
  /\ now = 0
  /\ calls = [c \in Calls |-> IdleCall]

\* --- CDN.put

\* put(content, metadata) up to `await sha256(...)`: the bytes are read and
\* the digest's input is built before the first suspension.
PutCall(c, shape, metadata) ==
  /\ NextSlot(c)
  /\ LET hp      == [heap EXCEPT ![c] = shape.data]
         content == [kind |-> shape.kind, buffer |-> c,
                     byteOffset |-> shape.byteOffset, length |-> shape.length]
     IN  /\ heap' = hp
         /\ calls' = [calls EXCEPT ![c] =
              [@ EXCEPT !.op = "put", !.pc = "hashing", !.content = content,
                        !.metadata = metadata,
                        !.bytes = AsUint8Array(hp, content),
                        !.hash = put_hash(hp, content, metadata, this)]]
  /\ UNCHANGED <<this, storage, now>>

\* The digest arrives; storage.exists(hash) runs to its result.
PutExists(c) ==
  /\ calls[c].op = "put" /\ calls[c].pc = "hashing"
  /\ calls' = [calls EXCEPT ![c] =
       [@ EXCEPT !.pc = "checking",
                 !.exists = storage_exists(this, storage, calls[c].hash),
                 !.adapterCalls = Append(@, "exists")]]
  /\ UNCHANGED <<this, storage, heap, now>>

\* exists is known; the metadata is assembled and storage.put(hash, bytes,
\* fullMetadata) runs, whatever exists was.
\* A put that leaves out the write when the digest was found.
PutStore_skipExisting(c) ==
  /\ calls[c].op = "put" /\ calls[c].pc = "checking"
  /\ \E t \in now..MaxClock :
       LET fullMetadata == put_fullMetadata(calls[c].bytes, calls[c].metadata, this, t)
       IN  /\ now' = t
           /\ storage' = IF calls[c].exists THEN storage
                          ELSE storage_put(this, storage, heap, calls[c].hash,
                                           calls[c].bytes, fullMetadata, t)
           /\ calls' = [calls EXCEPT ![c] =
                [@ EXCEPT !.pc = "storing", !.fullMetadata = fullMetadata,
                          !.adapterCalls = IF calls[c].exists THEN @
                                           ELSE Append(@, "put")]]
  /\ UNCHANGED <<this, heap>>

PutStore(c) ==
  /\ calls[c].op = "put" /\ calls[c].pc = "checking"
  /\ \E t \in now..MaxClock :
       LET fullMetadata == put_fullMetadata(calls[c].bytes, calls[c].metadata, this, t)
       IN  /\ now' = t
           /\ storage' = storage_put(this, storage, heap, calls[c].hash, calls[c].bytes,
                                     fullMetadata, t)
           /\ calls' = [calls EXCEPT ![c] =
                [@ EXCEPT !.pc = "storing", !.fullMetadata = fullMetadata,
                          !.adapterCalls = Append(@, "put")]]
  /\ UNCHANGED <<this, heap>>

\* The write is done; the UploadResult is returned.
PutReturn(c) ==
  /\ calls[c].op = "put" /\ calls[c].pc = "storing"
  /\ calls' = [calls EXCEPT ![c] =
       [@ EXCEPT !.pc = IF calls[c].request = None THEN "done" ELSE "returned",
                 !.result = put_result(calls[c].hash,
                                       put_url(calls[c].hash, calls[c].metadata, this),
                                       calls[c].exists, calls[c].fullMetadata)]]
  /\ UNCHANGED <<this, storage, heap, now>>

\* --- CDN.get, CDN.delete, CDN.exists, CDN.list: each hands the call to the
\* adapter, whose body runs to its result at once; the caller receives it at
\* a later step (Settle).

GetCall(c, hash) ==
  /\ NextSlot(c)
  /\ calls' = [calls EXCEPT ![c] =
       [@ EXCEPT !.op = "get", !.pc = "awaiting", !.hashArg = hash,
                 !.adapterCalls = <<"get">>,
                 !.result = storage_get(this, storage, hash)]]
  /\ UNCHANGED <<this, storage, heap, now>>

DeleteCall(c, hash) ==
  LET start == delete_start(this, storage, hash)
  IN  /\ NextSlot(c)
      /\ storage' = start.storage
      /\ calls' = [calls EXCEPT ![c] =
           [@ EXCEPT !.op = "delete", !.pc = start.pc, !.hashArg = hash,
                     !.exists = start.exists,
                     !.adapterCalls = <<"delete">>,
                     !.result = start.result]]
      /\ UNCHANGED <<this, heap, now>>

\* R2Storage.delete after exists said yes: bucket.delete(hash), return true.
DeleteRemove(c) ==
  /\ calls[c].op = "delete" /\ calls[c].pc = "removing"
  /\ storage' = MapDelete(storage, calls[c].hashArg)
  /\ calls' = [calls EXCEPT ![c] = [@ EXCEPT !.pc = "awaiting", !.result = TRUE]]
  /\ UNCHANGED <<this, heap, now>>

ExistsCall(c, hash) ==
  /\ NextSlot(c)
  /\ calls' = [calls EXCEPT ![c] =
       [@ EXCEPT !.op = "exists", !.pc = "awaiting", !.hashArg = hash,
                 !.adapterCalls = <<"exists">>,
                 !.result = storage_exists(this, storage, hash)]]
  /\ UNCHANGED <<this, storage, heap, now>>

ListCall(c, options) ==
  /\ NextSlot(c)
  /\ LET outcome == list_outcome(this, storage, options)
     IN  calls' = [calls EXCEPT ![c] =
           [@ EXCEPT !.op = "list", !.pc = "awaiting", !.options = options,
                     !.adapterCalls = IF this.storage.list THEN <<"list">> ELSE <<>>,
                     !.result = outcome.value, !.threw = outcome.threw]]
  /\ UNCHANGED <<this, storage, heap, now>>

\* The awaited promise settles: the method returns its value, or throws.
Settle(c) ==
  /\ calls[c].pc = "awaiting"
  /\ calls' = [calls EXCEPT ![c] =
       [@ EXCEPT !.pc = IF calls[c].request = None THEN "done" ELSE "returned"]]
  /\ UNCHANGED <<this, storage, heap, now>>

\* --- the caller's buffers

\* The caller writes byte v at index i of ArrayBuffer b, which it holds
\* because it passed it (or a view of it) to a put that has returned, or
\* because a get returned it as the body.  MemoryStorage.put keeps the view
\* it is given and MemoryStorage.get returns that view's buffer, so these
\* are the very buffers the store refers to.
Mutate(b, i, v) ==
  /\ Sequential
  /\ \E c \in Calls :
       \/ /\ calls[c].op = "put" /\ calls[c].pc = "done"
          /\ calls[c].content.buffer = b
       \/ /\ calls[c].op = "get" /\ calls[c].pc = "done"
          /\ calls[c].result # None
          /\ calls[c].result[1].body.kind = "ArrayBuffer"
          /\ calls[c].result[1].body.buffer = b
  /\ i \in DOMAIN heap[b]
  /\ heap[b][i] # v
  /\ heap' = [heap EXCEPT ![b][i] = v]
  /\ UNCHANGED <<this, storage, now, calls>>

\* --- detectContentType, called as the function types.ts exports

\* detectContentType(filename, defaultType = 'application/octet-stream') runs
\* to its return at once.
DetectCall(c, filename, defaultType) ==
  /\ NextSlot(c)
  /\ calls' = [calls EXCEPT ![c] =
       [@ EXCEPT !.op = "detectContentType", !.pc = "done",
                 !.metadata = [filename |-> Some(filename)],
                 !.options = [defaultType |-> defaultType],
                 !.result = detectContentType(filename,
                              Nullish(defaultType, "application/octet-stream"))]]
  /\ UNCHANGED <<this, storage, heap, now>>

\* --- CDN.handleRequest

\* handleRequest(request) up to the first await of the CDN method its branch
\* calls.  PUT /artifact reads the body into a new ArrayBuffer and enters
\* put; GET and DELETE call the adapter, which answers (ok) or rejects;
\* OPTIONS and unrouted requests call nothing.
HttpCall(c, request, ok) ==
  LET route == Route(request)
      begun == [calls[c] EXCEPT !.op = route, !.request = Some(request)]
  IN
  /\ NextSlot(c)
  /\ ok \/ route \in {"get", "delete"}
  /\ CASE route = "put" ->
            LET hp       == [heap EXCEPT ![c] = request.body]
                content  == [kind |-> "ArrayBuffer", buffer |-> c,
                             byteOffset |-> 0, length |-> Len(request.body)]
                metadata == request_metadata(request)
            IN  /\ heap' = hp
                /\ storage' = storage
                /\ calls' = [calls EXCEPT ![c] =
                     [begun EXCEPT !.pc = "hashing", !.content = content,
                                   !.metadata = metadata,
                                   !.bytes = AsUint8Array(hp, content),
                                   !.hash = put_hash(hp, content, metadata, this)]]
       [] route = "get" ->
            LET hash == request_hash(request)
            IN  /\ UNCHANGED <<heap, storage>>
                /\ calls' = [calls EXCEPT ![c] =
                     [begun EXCEPT !.pc = "awaiting", !.hashArg = hash,
                                   !.adapterCalls = <<"get">>,
                                   !.result = IF ok THEN storage_get(this, storage, hash)
                                              ELSE None,
                                   !.threw = IF ok THEN None ELSE Some(AdapterError)]]
       [] route = "delete" ->
            LET hash  == request_hash(request)
                start == delete_start(this, storage, hash)
            IN  /\ heap' = heap
                /\ storage' = IF ok THEN start.storage ELSE storage
                /\ calls' = [calls EXCEPT ![c] =
                     [begun EXCEPT !.pc = IF ok THEN start.pc ELSE "awaiting",
                                   !.hashArg = hash,
                                   !.exists = ok /\ start.exists,
                                   !.adapterCalls = <<"delete">>,
                                   !.result = ok /\ start.result,
                                   !.threw = IF ok THEN None ELSE Some(AdapterError)]]
       [] OTHER ->
            /\ UNCHANGED <<heap, storage>>
            /\ calls' = [calls EXCEPT ![c] = [begun EXCEPT !.pc = "returned"]]
  /\ UNCHANGED <<this, now>>

\* The adapter call a put is about to make (exists, or put) rejects: put
\* throws what the adapter threw, with nothing written.
AdapterRejects(c) ==
  /\ calls[c].op = "put" /\ calls[c].pc \in {"hashing", "checking"}
  /\ calls' = [calls EXCEPT ![c] =
       [@ EXCEPT !.pc = IF calls[c].request = None THEN "done" ELSE "returned",
                 !.adapterCalls =
                   Append(@, IF calls[c].pc = "hashing" THEN "exists" ELSE "put"),
                 !.threw = Some(AdapterError)]]
  /\ UNCHANGED <<this, storage, heap, now>>

\* The CDN method handleRequest awaited has returned or thrown (or none was
\* called): the Response is built and returned.
Respond(c) ==
  /\ calls[c].pc = "returned"
  /\ calls' = [calls EXCEPT ![c] =
       [@ EXCEPT !.pc = "done",
                 !.response = Some(
                   CASE calls[c].op = "put" ->
                          put_response(this, calls[c].result, calls[c].threw)
                     [] calls[c].op = "get" ->
                          get_response(this, calls[c].hashArg, calls[c].result,
                                       calls[c].threw)
                     [] calls[c].op = "delete" ->
                          delete_response(this, calls[c].hashArg, calls[c].result,
                                          calls[c].threw)
                     [] calls[c].op = "options" -> options_response(this)
                     [] OTHER -> notFound_response(this))]]
  /\ UNCHANGED <<this, storage, heap, now>>

\* --- specifications

\* One client, awaiting each call: the tests' use of the CDN.
Next ==
  \E c \in Calls :
    \/ Sequential /\ \E shape \in ContentShapes, metadata \in MetadataArgs :
                       PutCall(c, shape, metadata)
    \/ Sequential /\ \E hash \in HashArgs : GetCall(c, hash)
    \/ Sequential /\ \E hash \in HashArgs : DeleteCall(c, hash)
    \/ Sequential /\ \E hash \in HashArgs : ExistsCall(c, hash)
    \/ Sequential /\ \E options \in ListOptions : ListCall(c, options)
    \/ PutExists(c)
    \/ PutStore(c)
    \/ PutReturn(c)
    \/ Settle(c)

Spec == Init /\ [][Next]_vars

\* Clients that do not wait for one another: a call may start while others
\* are suspended at an await.
NextConc ==
  \E c \in Calls :
    \/ \E shape \in ContentShapes, metadata \in RaceMetadataArgs : PutCall(c, shape, metadata)
    \/ \E hash \in HashArgs : GetCall(c, hash)
    \/ \E hash \in HashArgs : DeleteCall(c, hash)
    \/ \E hash \in HashArgs : ExistsCall(c, hash)
    \/ \E options \in ListOptions : ListCall(c, options)
    \/ PutExists(c)
    \/ PutStore(c)
    \/ PutReturn(c)
    \/ Settle(c)

SpecConc == Init /\ [][NextConc]_vars

\* One client, awaiting each call, of a CDN over either adapter.
NextAny ==
  \E c \in Calls :
    \/ Sequential /\ \E shape \in ContentShapes, metadata \in MetadataArgs :
                       PutCall(c, shape, metadata)
    \/ Sequential /\ \E hash \in HashArgs : GetCall(c, hash)
    \/ Sequential /\ \E hash \in HashArgs : DeleteCall(c, hash)
    \/ Sequential /\ \E hash \in HashArgs : ExistsCall(c, hash)
    \/ Sequential /\ \E options \in ListOptions : ListCall(c, options)
    \/ PutExists(c)
    \/ PutStore(c)
    \/ PutReturn(c)
    \/ DeleteRemove(c)
    \/ Settle(c)

SpecAny == (Init \/ InitR2) /\ [][NextAny]_vars

\* One client that puts ArrayBuffers, awaiting each put, with metadata of
\* every kind.
NextPut ==
  \E c \in Calls :
    \/ Sequential /\ \E shape \in {s \in ContentShapes : s.kind = "ArrayBuffer"},
                         metadata \in TypeMetadataArgs :
                       PutCall(c, shape, metadata)
    \/ PutExists(c)
    \/ PutStore(c)
    \/ PutReturn(c)

SpecPut == Init /\ [][NextPut]_vars

\* One caller of put and delete whose adapter may reject exists or put.
NextFail ==
  \E c \in Calls :
    \/ Sequential /\ \E shape \in ContentShapes, metadata \in RaceMetadataArgs :
                       PutCall(c, shape, metadata)
    \/ Sequential /\ \E hash \in HashArgs : DeleteCall(c, hash)
    \/ PutExists(c)
    \/ PutStore(c)
    \/ PutReturn(c)
    \/ AdapterRejects(c)
    \/ Settle(c)

SpecFail == Init /\ [][NextFail]_vars

\* One caller of the CDN's methods and of handleRequest with GET, over
\* either adapter.
NextFrame ==
  \E c \in Calls :
    \/ Sequential /\ \E shape \in ContentShapes, metadata \in RaceMetadataArgs :
                       PutCall(c, shape, metadata)
    \/ Sequential /\ \E hash \in HashArgs : GetCall(c, hash)
    \/ Sequential /\ \E hash \in HashArgs : DeleteCall(c, hash)
    \/ Sequential /\ \E hash \in HashArgs : ExistsCall(c, hash)
    \/ Sequential /\ \E options \in ListOptions : ListCall(c, options)
    \/ Sequential /\ \E request \in {r \in HashRequests : r.method = "GET"} :
                       HttpCall(c, request, TRUE)
    \/ PutExists(c)
    \/ PutStore(c)
    \/ PutReturn(c)
    \/ DeleteRemove(c)
    \/ Settle(c)
    \/ Respond(c)

SpecFrame == (Init \/ InitR2) /\ [][NextFrame]_vars

\* One caller who puts and deletes, and sends handleRequest a GET of a url
\* that a put returned.
NextUrl ==
  \E c \in Calls :
    \/ Sequential /\ \E shape \in {s \in ContentShapes : s.kind = "ArrayBuffer"},
                         metadata \in UrlMetadataArgs :
                       PutCall(c, shape, metadata)
    \/ Sequential /\ \E hash \in HashArgs : DeleteCall(c, hash)
    \/ Sequential /\ \E d \in Calls :
                       /\ calls[d].op = "put" /\ calls[d].pc = "done"
                       /\ HttpCall(c, Request("GET", URL_pathname(calls[d].result.url)),
                                   TRUE)
    \/ PutExists(c)
    \/ PutStore(c)
    \/ PutReturn(c)
    \/ Settle(c)
    \/ Respond(c)

SpecUrl == Init /\ [][NextUrl]_vars

\* A caller who awaits each put and then issues deletes without awaiting
\* them, over either adapter.
NextDelete ==
  \E c \in Calls :
    \/ Sequential /\ \E shape \in ContentShapes, metadata \in RaceMetadataArgs :
                       PutCall(c, shape, metadata)
    \/ /\ \A d \in Calls : calls[d].op = "put" => ~InFlight(d)
       /\ \E hash \in HashArgs : DeleteCall(c, hash)
    \/ PutExists(c)
    \/ PutStore(c)
    \/ PutReturn(c)
    \/ DeleteRemove(c)
    \/ Settle(c)

SpecDelete == (Init \/ InitR2) /\ [][NextDelete]_vars

\* One caller of put and get on MemoryStorage who also writes to the
\* buffers it holds.
NextAlias ==
  \/ \E c \in Calls :
       \/ Sequential /\ \E shape \in ContentShapes, metadata \in RaceMetadataArgs :
                          PutCall(c, shape, metadata)
       \/ Sequential /\ \E hash \in HashArgs : GetCall(c, hash)
       \/ PutExists(c)
       \/ PutStore(c)
       \/ PutReturn(c)
       \/ Settle(c)
  \/ \E b \in Calls, i \in 1..MaxLen, v \in 0..MaxByte : Mutate(b, i, v)

SpecAlias == Init /\ [][NextAlias]_vars

\* A caller of detectContentType.
NextDetect ==
  \E c \in Calls : \E filename \in Filenames, defaultType \in DefaultTypeArgs :
    DetectCall(c, filename, defaultType)

SpecDetect == Init /\ [][NextDetect]_vars

\* One client of handleRequest, awaiting each Response, over an adapter
\* whose calls may reject.
NextHttp ==
  \E c \in Calls :
    \/ Sequential /\ \E request \in Requests, ok \in BOOLEAN : HttpCall(c, request, ok)
    \/ PutExists(c)
    \/ PutStore(c)
    \/ PutReturn(c)
    \/ AdapterRejects(c)
    \/ Settle(c)
    \/ Respond(c)

SpecHttp == Init /\ [][NextHttp]_vars

\* ------------------------------------------------------------ history
\* The calls of a behaviour, read as the history of what clients saw.  Under
\* Spec the calls follow one another in the order of their slots.

IsDone(c, op) == calls[c].op = op /\ calls[c].pc = "done"

\* The bytes call c's caller passed to put.
Payload(c) == Elements(heap, AsUint8Array(heap, calls[c].content))

\* A delete(h) was issued after call i and before call j.
DeleteBetween(h, i, j) ==
  \E k \in Calls : i < k /\ k < j /\ calls[k].op = "delete" /\ calls[k].hashArg = h

\* A put of the bytes whose digest is h was issued after call i and before
\* call j.
PutBetween(h, i, j) ==
  \E k \in Calls : i < k /\ k < j /\ calls[k].op = "put" /\ Digest(Payload(k)) = h

\* No earlier put of call i's bytes is still in effect when call i starts.
AbsentBefore(i) ==
  \A k \in Calls :
    (k < i /\ calls[k].op = "put" /\ Payload(k) = Payload(i))
      => DeleteBetween(calls[k].hash, k, i)

\* --------------------------------------------------------------- claims

\* C1. Sequential dedup idempotence: sequential puts of the same bytes with no
\* delete in between return the same hash; a put that starts with the digest
\* absent returns created = true and every later one created = false.
C1_SequentialDedup ==
  /\ \A i, j \in Calls :
       (/\ i < j /\ IsDone(i, "put") /\ IsDone(j, "put")
        /\ Payload(i) = Payload(j)
        /\ ~DeleteBetween(calls[i].result.hash, i, j))
         => /\ calls[j].result.hash = calls[i].result.hash
            /\ calls[j].result.created = FALSE
  /\ \A i \in Calls :
       (IsDone(i, "put") /\ AbsentBefore(i)) => calls[i].result.created = TRUE

\* Three puts of the same bytes have returned.
C1_Witness ==
  \E i, j, k \in Calls :
    /\ i < j /\ j < k
    /\ IsDone(i, "put") /\ IsDone(j, "put") /\ IsDone(k, "put")
    /\ Payload(i) = Payload(j) /\ Payload(j) = Payload(k)
    /\ calls[i].result.created /\ ~calls[k].result.created

\* C2. N puts of identical bytes with no delete in between invoke
\* StorageAdapter.put for that digest at most once.
C2_WritesAtMostOnce ==
  \A i, j \in Calls :
    (/\ i < j /\ IsDone(i, "put") /\ IsDone(j, "put")
     /\ Payload(i) = Payload(j)
     /\ ~DeleteBetween(calls[i].result.hash, i, j))
      => Cardinality({k \in {i, j} :
                        \E n \in DOMAIN calls[k].adapterCalls :
                          calls[k].adapterCalls[n] = "put"}) <= 1

\* C3. A put that returns created = false leaves the stored metadata as the
\* first write made it: a later get returns the first write's metadata.
C3_DedupHitKeepsMetadata ==
  \A i, j, k \in Calls :
    (/\ i < j /\ j < k
     /\ IsDone(i, "put") /\ calls[i].result.created
     /\ IsDone(j, "put") /\ ~calls[j].result.created
     /\ calls[j].result.hash = calls[i].result.hash
     /\ IsDone(k, "get") /\ calls[k].hashArg = calls[i].result.hash
     /\ ~DeleteBetween(calls[i].result.hash, i, k))
      => /\ calls[k].result # None
         /\ calls[k].result[1].metadata = calls[i].result.metadata

\* C5. Round trip: get(put(b).hash), with no delete in between, returns the
\* hash and a body that is exactly the bytes b.
C5_RoundTrip ==
  \A i, j \in Calls :
    (/\ i < j /\ IsDone(i, "put") /\ IsDone(j, "get")
     /\ calls[j].hashArg = calls[i].result.hash
     /\ ~DeleteBetween(calls[i].result.hash, i, j))
      => /\ calls[j].result # None
         /\ calls[j].result[1].hash = calls[i].result.hash
         /\ heap[calls[j].result[1].body.buffer] = Payload(i)

\* The bytes stored under digest h (h a key of the Map).
StoredBytes(m, hp, h) == Elements(hp, MapGet(m, h)[1].content)

\* Every key of the Map is the digest of the bytes stored under it.
KeysAreDigests ==
  \A n \in DOMAIN storage :
    Digest(Elements(heap, storage[n].value.content)) = storage[n].key

\* C4. Immutability: the bytes stored under a digest are the bytes whose hash
\* is that digest, in every state, and no step changes them while the key
\* stays.
C4_Immutability ==
  /\ []KeysAreDigests
  /\ [][\A n \in DOMAIN storage :
          MapHas(storage', storage[n].key)
            => StoredBytes(storage', heap', storage[n].key)
                 = StoredBytes(storage, heap, storage[n].key)]_vars

\* A stored digest has been written by two puts, one given the ArrayBuffer
\* and one a Uint8Array over it.
C4_Witness ==
  \E i, j \in Calls :
    /\ i # j /\ IsDone(i, "put") /\ IsDone(j, "put")
    /\ calls[i].hash = calls[j].hash
    /\ calls[i].content.kind # calls[j].content.kind
    /\ MapHas(storage, calls[i].hash)

\* C6. Delete finality: after delete(h) has returned true and before a later
\* put of the bytes whose digest is h, exists(h) is false, get(h) is null and
\* delete(h) returns false.
C6_DeleteFinality ==
  \A i, j \in Calls :
    (/\ i < j /\ IsDone(i, "delete") /\ calls[i].result = TRUE
     /\ calls[j].pc = "done" /\ calls[j].op \in {"exists", "get", "delete"}
     /\ calls[j].hashArg = calls[i].hashArg
     /\ ~PutBetween(calls[i].hashArg, i, j))
      => /\ calls[j].op = "exists" => calls[j].result = FALSE
         /\ calls[j].op = "get"    => calls[j].result = None
         /\ calls[j].op = "delete" => calls[j].result = FALSE

\* A delete returned true and a second delete of the same digest returned.
C6_Witness ==
  \E i, j \in Calls :
    /\ i < j /\ IsDone(i, "delete") /\ calls[i].result = TRUE
    /\ IsDone(j, "delete") /\ calls[j].hashArg = calls[i].hashArg

\* C7. Re-creation: the next put, after delete(h) returned true, of the bytes
\* whose digest is h returns created = true, and from then until a delete of
\* h a get(h) finds the artifact with those bytes.
C7_RecreateAfterDelete ==
  \A i, j \in Calls :
    (/\ i < j /\ IsDone(i, "delete") /\ calls[i].result = TRUE
     /\ IsDone(j, "put") /\ Digest(Payload(j)) = calls[i].hashArg
     /\ ~PutBetween(calls[i].hashArg, i, j))
      => /\ calls[j].result.created = TRUE
         /\ ~DeleteBetween(calls[i].hashArg, j, MaxCalls + 1)
              => /\ MemoryStorage_get(storage, calls[i].hashArg) # None
                 /\ StoredBytes(storage, heap, calls[i].hashArg) = Payload(j)

\* A put of deleted bytes has returned.
C7_Witness ==
  \E i, j \in Calls :
    /\ i < j /\ IsDone(i, "delete") /\ calls[i].result = TRUE
    /\ IsDone(j, "put") /\ Digest(Payload(j)) = calls[i].hashArg
    /\ calls[j].result.created

\* C8. Addressing independence: the hash a put returns is the digest of the
\* payload bytes, whatever the metadata and the CDN's configuration; two puts
\* of the same bytes return the same hash.
C8_AddressingIndependence ==
  /\ \A i \in Calls : IsDone(i, "put") => calls[i].result.hash = Digest(Payload(i))
  /\ \A i, j \in Calls :
       (IsDone(i, "put") /\ IsDone(j, "put") /\ Payload(i) = Payload(j))
         => calls[i].result.hash = calls[j].result.hash

\* Two puts of the same bytes with different metadata have returned.
C8_Witness ==
  \E i, j \in Calls :
    /\ IsDone(i, "put") /\ IsDone(j, "put") /\ Payload(i) = Payload(j)
    /\ Field(calls[i].metadata, "filename") = None
    /\ Field(calls[j].metadata, "filename") # None

\* C9. metadata.size, in the UploadResult, in the store and in every later
\* get, is the byte length of the stored payload, whatever size the caller
\* passed.
C9_SizeIsByteLength ==
  /\ \A i \in Calls :
       IsDone(i, "put") => calls[i].result.metadata.size = Some(Len(Payload(i)))
  /\ \A n \in DOMAIN storage :
       storage[n].value.metadata.size
         = Some(Len(Elements(heap, storage[n].value.content)))
  /\ \A i, j \in Calls :
       (/\ i < j /\ IsDone(i, "put") /\ IsDone(j, "get")
        /\ calls[j].hashArg = calls[i].result.hash /\ calls[j].result # None)
         => calls[j].result[1].metadata.size = Some(Len(Payload(i)))

\* A put whose caller passed a size that is not the payload's length has
\* returned, and a later get has found the artifact.
C9_Witness ==
  \E i, j \in Calls :
    /\ i < j /\ IsDone(i, "put") /\ IsDone(j, "get")
    /\ Field(calls[i].metadata, "size") # None
    /\ Field(calls[i].metadata, "size") # Some(Len(Payload(i)))
    /\ calls[j].hashArg = calls[i].result.hash /\ calls[j].result # None

\* C10. Convergence under the put/put race: once every put of some bytes has
\* returned, and no delete of their digest was issued, the store holds exactly
\* one entry for the digest and its bytes are the payload.
C10_RaceConverges ==
  \A i \in Calls :
    (/\ calls[i].op = "put"
     /\ \A j \in Calls :
          (calls[j].op = "put" /\ Payload(j) = Payload(i)) => calls[j].pc = "done"
     /\ \A k \in Calls :
          calls[k].op = "delete" => calls[k].hashArg # Digest(Payload(i)))
      => /\ Cardinality({n \in DOMAIN storage : storage[n].key = Digest(Payload(i))}) = 1
         /\ StoredBytes(storage, heap, Digest(Payload(i))) = Payload(i)

\* Two puts of the same bytes raced: both saw the digest absent, both have
\* returned.
C10_Witness ==
  \E i, j \in Calls :
    /\ i # j /\ IsDone(i, "put") /\ IsDone(j, "put")
    /\ Payload(i) = Payload(j)
    /\ calls[i].result.created /\ calls[j].result.created
    /\ \A k \in Calls : calls[k].op # "delete"

\* C11. Among puts of the same bytes that race on an empty store, with no
\* delete of their digest, at least one returns created = true: once all of
\* them have returned, one of them did.  (That more than one may is the
\* state C11_Witness describes.)
C11_SomeRacerCreates ==
  \A i \in Calls :
    (/\ calls[i].op = "put"
     /\ \A j \in Calls :
          (calls[j].op = "put" /\ Payload(j) = Payload(i)) => calls[j].pc = "done"
     /\ \A k \in Calls :
          calls[k].op = "delete" => calls[k].hashArg # Digest(Payload(i)))
      => \E j \in Calls :
           /\ IsDone(j, "put") /\ Payload(j) = Payload(i)
           /\ calls[j].result.created = TRUE

\* Three puts of the same bytes, no delete: two raced and both returned
\* created = true, the third returned created = false.
C11_Witness ==
  \E i, j, k \in Calls :
    /\ i < j /\ k \notin {i, j}
    /\ IsDone(i, "put") /\ IsDone(j, "put") /\ IsDone(k, "put")
    /\ Payload(i) = Payload(j) /\ Payload(j) = Payload(k)
    /\ calls[i].result.created /\ calls[j].result.created
    /\ ~calls[k].result.created
    /\ \A d \in Calls : calls[d].op # "delete"

\* No call was issued after call c.
IsLast(c) == \A d \in Calls : d > c => calls[d].op = "none"

\* C13. CDN.list on an adapter without a list method throws its own error,
\* without a call to the adapter, and returns nothing (no empty list); on an
\* adapter with list it returns what the adapter's list returns.
C13_ListUnsupported ==
  \A c \in Calls :
    IsDone(c, "list") =>
      IF this.storage.list
      THEN /\ calls[c].threw = None
           /\ IsLast(c) => calls[c].result = MemoryStorage_list(storage, calls[c].options)
      ELSE /\ calls[c].threw = Some("Storage adapter does not support list()")
           /\ calls[c].adapterCalls = <<>>

\* list was called on an adapter without list while an artifact was stored.
C13_Witness ==
  \E c \in Calls :
    /\ IsDone(c, "list") /\ ~this.storage.list /\ calls[c].threw # None
    /\ IsLast(c) /\ storage # <<>>

\* A put of the bytes whose digest is h was issued before call j and no
\* delete of h between the two.
StoredAt(h, j) ==
  \E k \in Calls : k < j /\ calls[k].op = "put" /\ calls[k].hash = h
                           /\ ~DeleteBetween(h, k, j)

\* C12. NotFound is a value: get of a digest that is not stored returns null,
\* delete of one returns false, neither throws, and from the call to its
\* return the store does not change.
C12_NotFoundIsValue ==
  /\ [](\A j \in Calls :
          (/\ calls[j].pc = "done" /\ calls[j].op \in {"get", "delete"}
           /\ ~StoredAt(calls[j].hashArg, j))
            => /\ calls[j].threw = None
               /\ calls[j].op = "get" => calls[j].result = None
               /\ calls[j].op = "delete" => calls[j].result = FALSE)
  /\ [][\A c \in Calls :
          /\ (/\ calls[c].op = "none" /\ calls'[c].op \in {"get", "delete"}
              /\ ~MapHas(storage, calls'[c].hashArg))
               => storage' = storage /\ calls'[c].pc = "awaiting"
          /\ (/\ calls[c].op \in {"get", "delete"}
              /\ calls[c].pc = "awaiting" /\ calls'[c].pc = "done")
               => storage' = storage]_vars

\* Over R2Storage, with an artifact stored under another digest, a get and a
\* delete of a digest that is not stored have returned.
C12_Witness ==
  \E i, j \in Calls :
    /\ this.storage.class = "R2Storage" /\ storage # <<>>
    /\ IsDone(i, "get") /\ ~StoredAt(calls[i].hashArg, i)
    /\ IsDone(j, "delete") /\ ~StoredAt(calls[j].hashArg, j)

\* --- handleRequest, as its one client saw it

\* handleRequest has returned call c's Response.
HttpDone(c) == calls[c].pc = "done" /\ calls[c].request # None

Response(c) == calls[c].response[1]

\* Call k was a put that wrote digest h; call d a delete that removed it.
Wrote(k, h) ==
  /\ calls[k].op = "put" /\ calls[k].hash = h /\ calls[k].threw = None
  /\ calls[k].pc \in {"storing", "returned", "done"}

Removed(d, h) ==
  calls[d].op = "delete" /\ calls[d].hashArg = h /\ calls[d].result = TRUE

\* An artifact is stored under h when call j starts.
StoredBefore(h, j) ==
  \E k \in Calls :
    /\ k < j /\ Wrote(k, h)
    /\ ~\E d \in Calls : k < d /\ d < j /\ Removed(d, h)

\* C14. HTTP existence mapping, the adapter answering: GET /a/<h> returns
\* 200 if an artifact is stored under h at the lookup and 404 if not;
\* DELETE /a/<h> returns 200 with {deleted: true, hash: h} if one was stored,
\* and 404 if not, and after it none is stored under h.
C14_HttpExistence ==
  \A j \in Calls :
    (HttpDone(j) /\ calls[j].op \in {"get", "delete"} /\ calls[j].threw = None)
      => LET h   == calls[j].hashArg
             was == StoredBefore(h, j)
         IN  /\ calls[j].op = "get" =>
                  /\ Response(j).status = IF was THEN 200 ELSE 404
                  /\ IsLast(j) => (Response(j).status = 200 <=> MapHas(storage, h))
             /\ calls[j].op = "delete" =>
                  /\ Response(j).status = IF was THEN 200 ELSE 404
                  /\ was => Response(j).body
                              = [kind |-> "json", value |-> [deleted |-> TRUE, hash |-> h]]
                  /\ IsLast(j) => ~MapHas(storage, h)

\* A DELETE of a stored digest returned 200 and the GET after it 404.
C14_Witness ==
  \E i, j \in Calls :
    /\ i < j /\ HttpDone(i) /\ HttpDone(j)
    /\ calls[i].op = "delete" /\ Response(i).status = 200
    /\ calls[j].op = "get" /\ calls[j].hashArg = calls[i].hashArg
    /\ calls[j].threw = None /\ Response(j).status = 404

\* C15. Adapter failure at the HTTP boundary: a request whose adapter call
\* failed gets status 500 with a JSON body that has an `error` field.
C15_FailureIsJson500 ==
  \A c \in Calls :
    (HttpDone(c) /\ calls[c].threw # None)
      => /\ Response(c).status = 500
         /\ Response(c).body.kind = "json"
         /\ "error" \in DOMAIN Response(c).body.value

\* C16. Routing fails closed: a request that is not PUT /artifact, GET /a/...
\* or DELETE /a/... gets 204 with no body when its method is OPTIONS and
\* 404 otherwise; no adapter call is made for it and no step of it changes
\* the store.
Unrouted(request) ==
  /\ ~(request.method = "PUT" /\ request.pathname = Artifact)
  /\ ~(request.method \in {"GET", "DELETE"}
         /\ Len(request.pathname) >= 3 /\ SubSeq(request.pathname, 1, 3) = <<"/", "a", "/">>)

C16_RoutingFailsClosed ==
  /\ [](\A c \in Calls :
          (calls[c].request # None /\ Unrouted(calls[c].request[1]))
            => /\ calls[c].adapterCalls = <<>>
               /\ calls[c].pc = "done" =>
                    IF calls[c].request[1].method = "OPTIONS"
                    THEN Response(c).status = 204 /\ Response(c).body = [kind |-> "null"]
                    ELSE Response(c).status = 404)
  /\ [][\A c \in Calls :
          (calls'[c].request # None /\ Unrouted(calls'[c].request[1])
             /\ calls'[c] # calls[c])
            => storage' = storage]_vars

\* With an artifact stored, OPTIONS on its path was answered 204 and a PUT
\* to its path 404.
C16_Witness ==
  \E i, j \in Calls :
    /\ storage # <<>> /\ HttpDone(i) /\ HttpDone(j)
    /\ calls[i].request[1].method = "OPTIONS" /\ Response(i).status = 204
    /\ StartsWith(calls[i].request[1].pathname, <<"/", "a", "/">>)
    /\ calls[j].request[1].method = "PUT" /\ Response(j).status = 404

\* No put wrote h and no delete removed it between calls i and j.
Undisturbed(h, i, j) ==
  ~\E k \in Calls : i < k /\ k < j /\ (Wrote(k, h) \/ Removed(k, h))

\* The path of call c's request is /a/<h> with nothing after the digest.
BarePath(c, h) == calls[c].request[1].pathname = <<"/", "a", "/">> \o h

\* The path of call c's request is /a/<h>.<ext>, ext not empty.
ExtPath(c, h) ==
  LET path == calls[c].request[1].pathname
  IN  /\ Len(path) > Len(h) + 4
      /\ SubSeq(path, 1, Len(h) + 4) = <<"/", "a", "/">> \o h \o <<".">>

\* C17. Extension transparency: with the store undisturbed between them,
\* GET /a/<h> and GET /a/<h>.<ext> return the same status and body, and on
\* 200 both carry ETag "h"; DELETE /a/<h>.<ext> of a stored h returns 200
\* for h and leaves nothing stored under h.
C17_ExtensionTransparency ==
  /\ \A i, j \in Calls : \A h \in HashArgs :
       (/\ i # j /\ HttpDone(i) /\ HttpDone(j)
        /\ calls[i].request[1].method = "GET" /\ calls[j].request[1].method = "GET"
        /\ calls[i].threw = None /\ calls[j].threw = None
        /\ BarePath(i, h) /\ ExtPath(j, h)
        /\ Undisturbed(h, i, j) /\ Undisturbed(h, j, i))
         => /\ Response(i).status = Response(j).status
            /\ Response(i).body = Response(j).body
            /\ Response(i).status = 200 =>
                 /\ Response(i).headers["ETag"] = <<"\"">> \o h \o <<"\"">>
                 /\ Response(j).headers["ETag"] = <<"\"">> \o h \o <<"\"">>
  /\ \A j \in Calls : \A h \in HashArgs :
       (/\ HttpDone(j) /\ calls[j].request[1].method = "DELETE" /\ ExtPath(j, h)
        /\ calls[j].threw = None /\ StoredBefore(h, j))
         => /\ Response(j).status = 200
            /\ Response(j).body.value.hash = h
            /\ IsLast(j) => ~MapHas(storage, h)

\* A stored digest was fetched bare and with an extension, both 200.
C17_Witness ==
  \E i, j \in Calls : \E h \in HashArgs :
    /\ HttpDone(i) /\ HttpDone(j)
    /\ calls[i].request[1].method = "GET" /\ calls[j].request[1].method = "GET"
    /\ BarePath(i, h) /\ ExtPath(j, h)
    /\ Response(i).status = 200 /\ Response(j).status = 200

\* The last put before call j that wrote h.
LastWrite(h, j) ==
  CHOOSE k \in Calls :
    /\ k < j /\ Wrote(k, h)
    /\ \A d \in Calls : (d < j /\ Wrote(d, h)) => d <= k

\* C18. A 200 response to GET /a/<h> carries Content-Type equal to the
\* stored contentType, Cache-Control `public, max-age=<cacheMaxAge>,
\* immutable` with the constructor's cacheMaxAge, 31536000 when none was
\* given, and ETag equal to the digest in double quotes.
C18_GetHeaders ==
  /\ Constructor([storage |-> Some(MemoryAdapter), baseUrl |-> Some(<<>>)]).cacheMaxAge
       = 31536000
  /\ \A j \in Calls :
       (HttpDone(j) /\ calls[j].op = "get" /\ Response(j).status = 200)
         => LET h       == calls[j].hashArg
                headers == Response(j).headers
                stored  == calls[LastWrite(h, j)].result.metadata.contentType
            IN  /\ headers["Content-Type"]
                     = IF stored # None THEN stored[1] ELSE this.defaultContentType
                /\ IsLast(j) =>
                     headers["Content-Type"] = MapGet(storage, h)[1].metadata.contentType[1]
                /\ headers["Cache-Control"]
                     = <<"p", "u", "b", "l", "i", "c", ",", " ",
                         "m", "a", "x", "-", "a", "g", "e", "=">>
                       \o (CASE this.cacheMaxAge = 31536000 ->
                                   <<"3", "1", "5", "3", "6", "0", "0", "0">>
                              [] this.cacheMaxAge = 3600 -> <<"3", "6", "0", "0">>)
                       \o <<",", " ", "i", "m", "m", "u", "t", "a", "b", "l", "e">>
                /\ headers["ETag"] = <<"\"">> \o h \o <<"\"">>

\* With cacheMaxAge configured, a GET of an artifact uploaded with a
\* Content-Type of its own returned 200.
C18_Witness ==
  \E j \in Calls :
    /\ HttpDone(j) /\ calls[j].op = "get" /\ Response(j).status = 200
    /\ this.cacheMaxAge = 3600
    /\ Response(j).headers["Content-Type"] = "text/html"

\* C19. CORS: with cors on, every response carries the four
\* Access-Control-* headers; with cors off, none carries any.
C19_CorsOnEveryResponse ==
  \A c \in Calls :
    HttpDone(c) =>
      LET headers == Response(c).headers
      IN  IF this.cors
          THEN /\ {"Access-Control-Allow-Origin", "Access-Control-Allow-Methods",
                    "Access-Control-Allow-Headers", "Access-Control-Max-Age"}
                     \subseteq DOMAIN headers
               /\ headers["Access-Control-Allow-Origin"] = "*"
               /\ headers["Access-Control-Allow-Methods"] = "GET, PUT, DELETE, OPTIONS"
               /\ headers["Access-Control-Allow-Headers"] = "Content-Type, X-Filename"
               /\ headers["Access-Control-Max-Age"] = "86400"
          ELSE DOMAIN headers \subseteq {"Content-Type", "Cache-Control", "ETag"}

\* With cors on, responses of status 200, 204 and 500 have been returned.
C19_Witness ==
  /\ this.cors
  /\ \A status \in {200, 204, 500} :
       \E c \in Calls : HttpDone(c) /\ Response(c).status = status

C21_DetectFallback ==
  \A c \in Calls :
    IsDone(c, "detectContentType") =>
      LET filename == calls[c].metadata.filename[1]
          fallback == IF calls[c].options.defaultType = None
                      THEN "application/octet-stream"
                      ELSE calls[c].options.defaultType[1]
          hasDot   == \E i \in DOMAIN filename : filename[i] = "."
          entries  == IF hasDot
                      THEN {e \in CONTENT_TYPES :
                              e.ext = toLowerCase(Pop(Split(filename, ".")))}
                      ELSE {}
      IN  /\ calls[c].threw = None
          /\ entries = {} => calls[c].result = fallback
          /\ \A e \in entries : calls[c].result = e.type

\* C22. The url put returns is baseUrl, "/a/", the digest and, only when a
\* filename with a '.' was given, "." and the text after its last '.';
\* baseUrl is the configured one without its trailing slash.
C22_UrlShape ==
  \A c \in Calls :
    IsDone(c, "put") =>
      \E o \in OptionsArgs :
        LET configured == o.baseUrl[1]
            n        == Len(configured)
            baseUrl  == IF n > 0 /\ configured[n] = "/"
                        THEN SubSeq(configured, 1, n - 1) ELSE configured
            filename == Field(calls[c].metadata, "filename")
            hasExt   == /\ filename # None
                        /\ \E i \in DOMAIN filename[1] : filename[1][i] = "."
            suffix   == IF hasExt
                        THEN <<".">> \o Pop(Split(filename[1], "."))
                        ELSE <<>>
        IN  /\ this = Constructor(o)
            /\ calls[c].result.url =
                 baseUrl \o <<"/", "a", "/">> \o calls[c].hash \o suffix

\* C23. A PUT /artifact that succeeds passes put the filename of the query
\* parameter when that is present and not empty, else the X-Filename header
\* when that is present and not empty, else none, and the Content-Type
\* header as contentType; the response is 200 with put's UploadResult as
\* JSON.
C23_PutTakesFilename ==
  \A c \in Calls :
    (HttpDone(c) /\ calls[c].op = "put" /\ calls[c].threw = None) =>
      LET request  == calls[c].request[1]
          nonEmpty(v) == v # None /\ v[1] # <<>>
          filename == IF nonEmpty(request.query) THEN request.query
                      ELSE IF nonEmpty(request.xFilename) THEN request.xFilename
                      ELSE None
          value    == Response(c).body.value
      IN  /\ Response(c).status = 200
          /\ Response(c).body.kind = "json"
          /\ calls[c].metadata.filename = filename
          /\ calls[c].metadata.contentType = request.contentType
          /\ value.hash = calls[c].result.hash
          /\ value.url = calls[c].result.url
          /\ value.created = calls[c].result.created
          /\ IF filename = None
             THEN "filename" \notin DOMAIN value.metadata
             ELSE value.metadata.filename = filename
          /\ \A k \in DOMAIN value.metadata :
               value.metadata[k] = calls[c].result.metadata[k]
          /\ request.contentType # None =>
               value.metadata.contentType = request.contentType

C23_Witness ==
  \E c \in Calls :
    /\ HttpDone(c) /\ calls[c].op = "put" /\ calls[c].threw = None
    /\ calls[c].request[1].query = Some(<<>>)
    /\ Response(c).status = 200
    /\ Response(c).body.value.metadata.filename = Some(<<"b", ".", "t", "x", "t">>)

\* C23 as stated: the query parameter is taken whenever it is present.
C23_QueryWhenPresent ==
  \A c \in Calls :
    (HttpDone(c) /\ calls[c].op = "put" /\ calls[c].threw = None) =>
      LET request == calls[c].request[1]
      IN  calls[c].metadata.filename =
            IF request.query # None THEN request.query
            ELSE request.xFilename

\* C24. list on MemoryStorage returns digests that are stored at that
\* moment, none of them twice: all of them (up to 1000) without options,
\* and min(L, number stored) of them with limit L.
C24_ListIsStoredDigests ==
  \A c \in Calls :
    (IsDone(c, "list") /\ IsLast(c) /\ this.storage.class = "MemoryStorage"
       /\ this.storage.list) =>
      LET result == calls[c].result
          stored == {storage[i].key : i \in DOMAIN storage}
          n      == Cardinality(stored)
          limit  == Field(calls[c].options, "limit")
          most   == IF limit = None THEN 1000 ELSE limit[1]
      IN  /\ calls[c].threw = None
          /\ \A i \in DOMAIN result : result[i] \in stored
          /\ \A i, j \in DOMAIN result : result[i] = result[j] => i = j
          /\ Len(result) = IF most < n THEN most ELSE n

C24_Witness ==
  \E c \in Calls :
    /\ IsDone(c, "list") /\ IsLast(c) /\ this.storage.list
    /\ Len(storage) = 2
    /\ calls[c].options = [limit |-> Some(1)]
    /\ Len(calls[c].result) = 1

\* C25. Metadata round trip: after put stored an artifact with a filename,
\* a contentType and customMetadata, a get of its digest, on either
\* adapter, returns the filename and contentType of put's result and
\* customMetadata with exactly the caller's keys and values.
C25_MetadataRoundTrip ==
  \A i, j \in Calls :
    (/\ i < j /\ IsDone(i, "put") /\ IsDone(j, "get")
     /\ {"filename", "contentType", "customMetadata"} \subseteq DOMAIN calls[i].metadata
     /\ calls[j].hashArg = calls[i].result.hash
     /\ Undisturbed(calls[i].result.hash, i, j))
      => /\ calls[j].result # None
         /\ LET got == calls[j].result[1].metadata
            IN  /\ got.filename = calls[i].result.metadata.filename
                /\ got.contentType = calls[i].result.metadata.contentType
                /\ got.customMetadata = calls[i].metadata.customMetadata

\* The digests put has written and no later delete has removed.
Live ==
  {calls[k].hash : k \in {c \in Calls :
     /\ Wrote(c, calls[c].hash)
     /\ ~\E d \in Calls : c < d /\ Removed(d, calls[c].hash)}}

\* C26. Stored once: the store holds one entry for each digest that was put
\* and not deleted since, and nothing else, so the number of stored
\* artifacts is the number of distinct live contents, not of put calls.
C26_StoredOnce ==
  /\ {storage[n].key : n \in DOMAIN storage} = Live
  /\ Len(storage) = Cardinality(Live)

C26_Witness ==
  \E i, j \in Calls :
    /\ i < j /\ IsDone(i, "put") /\ IsDone(j, "put")
    /\ calls[i].hash = calls[j].hash
    /\ ~DeleteBetween(calls[i].hash, i, j)
    /\ Len(storage) = 1

\* C27. A put that returns has called the adapter's exists once and then its
\* put once, whether or not the digest was found.  A put whose exists or
\* put was rejected throws that failure, calls the adapter no more, and,
\* when it was exists that failed, has left the store as it was.
C27_ExistsThenPut ==
  /\ [](\A c \in Calls :
          IsDone(c, "put") =>
            IF calls[c].threw = None
            THEN calls[c].adapterCalls = <<"exists", "put">>
            ELSE /\ calls[c].threw = Some(AdapterError)
                 /\ calls[c].adapterCalls \in {<<"exists">>, <<"exists", "put">>})
  /\ [][\A c \in Calls :
          /\ (calls[c].op = "put" /\ calls[c].pc = "done")
               => calls'[c].adapterCalls = calls[c].adapterCalls
          /\ (/\ calls'[c].op = "put" /\ calls'[c] # calls[c]
              /\ calls'[c].adapterCalls \in {<<>>, <<"exists">>})
               => storage' = storage]_vars

C27_Witness ==
  \E i, j, k \in Calls :
    /\ IsDone(i, "put") /\ calls[i].threw = None /\ calls[i].exists
    /\ calls[i].adapterCalls = <<"exists", "put">>
    /\ IsDone(j, "put") /\ calls[j].threw = None /\ ~calls[j].exists
    /\ IsDone(k, "put") /\ calls[k].threw # None
    /\ calls[k].adapterCalls = <<"exists">>

\* What the store holds for digest h: nothing, or its bytes and metadata.
Held(m, hp, h) ==
  IF ~MapHas(m, h) THEN None
  ELSE IF this.storage.class = "R2Storage" THEN MapGet(m, h)
  ELSE Some([bytes    |-> Elements(hp, MapGet(m, h)[1].content),
             metadata |-> MapGet(m, h)[1].metadata])

\* C28. Frame: a step changes what the store holds for a digest only when
\* it is a step of a put or a delete of that digest; get, exists, list and
\* HTTP GET change nothing of the store; an artifact leaves the store only
\* by a delete of its digest, and while stored a get returns it.
C28_Frame ==
  /\ [](\A h \in HashArgs : MapHas(storage, h) => storage_get(this, storage, h) # None)
  /\ [][\A h \in HashArgs :
          /\ Held(storage', heap', h) # Held(storage, heap, h)
               => \E c \in Calls :
                    /\ calls'[c] # calls[c]
                    /\ \/ calls'[c].op = "put" /\ calls'[c].hash = h
                       \/ calls'[c].op = "delete" /\ calls'[c].hashArg = h
          /\ (MapHas(storage, h) /\ ~MapHas(storage', h))
               => \E c \in Calls :
                    /\ calls'[c] # calls[c]
                    /\ calls'[c].op = "delete" /\ calls'[c].hashArg = h
          /\ (\E c \in Calls : /\ calls'[c] # calls[c]
                                /\ calls'[c].op \in {"get", "exists", "list"})
               => storage' = storage /\ heap' = heap]_vars

C28_Witness ==
  \E i, j, k \in Calls :
    /\ i < j /\ j < k
    /\ IsDone(i, "put") /\ IsDone(j, "put") /\ calls[i].hash # calls[j].hash
    /\ IsDone(k, "delete") /\ calls[k].hashArg = calls[i].hash /\ calls[k].result = TRUE
    /\ MapHas(storage, calls[j].hash) /\ ~MapHas(storage, calls[i].hash)
    /\ Held(storage, heap, calls[j].hash)
         = IF this.storage.class = "R2Storage"
           THEN MapGet(storage, calls[j].hash)
           ELSE Some([bytes |-> Payload(j), metadata |-> calls[j].result.metadata])

\* C29. In any interleaving of puts and deletes, at the step in which a put
\* writes to the store, the created it is going to return is true exactly
\* when the digest is absent from the store at that moment, that is, when
\* the write inserts the entry.
C29_CreatedIffInserted ==
  [][\A c \in Calls :
       (calls[c].op = "put" /\ calls[c].pc = "checking" /\ calls'[c].pc = "storing")
         => LET created  == put_result(calls[c].hash, <<>>, calls[c].exists,
                                       calls'[c].fullMetadata).created
                inserted == ~MapHas(storage, calls[c].hash) /\ MapHas(storage', calls[c].hash)
            IN  created <=> inserted]_vars

\* C30. The url put returns is servable: whatever the filename and the
\* configured baseUrl, a GET of that url given to handleRequest of the same
\* CDN answers 200 with the uploaded bytes while the artifact has not been
\* deleted.
C30_UrlIsServable ==
  \A i, j \in Calls :
    (/\ i < j /\ IsDone(i, "put") /\ HttpDone(j)
     /\ calls[j].request[1].method = "GET"
     /\ calls[j].request[1].pathname = URL_pathname(calls[i].result.url)
     /\ ~DeleteBetween(calls[i].result.hash, i, j))
      => /\ Response(j).status = 200
         /\ Response(j).body.kind = "bytes"
         /\ heap[Response(j).body.value.buffer] = Payload(i)

\* The deletes of call i's digest issued after put i and before the next
\* put of that digest.
DeletesAfter(i) ==
  {d \in Calls :
     /\ d > i /\ calls[d].op = "delete" /\ calls[d].hashArg = calls[i].hash
     /\ ~PutBetween(calls[i].hash, i, d)}

\* C31. Of the concurrent deletes of a digest that a finished put stored,
\* on either adapter, exactly one returns true and the others false.
C31_OneDeleteWins ==
  \A i \in Calls :
    (/\ IsDone(i, "put") /\ DeletesAfter(i) # {}
     /\ \A d \in DeletesAfter(i) : calls[d].pc = "done")
      => Cardinality({d \in DeletesAfter(i) : calls[d].result = TRUE}) = 1

\* The bytes of the body a get of h returns from store m over buffers hp.
GetBytes(m, hp, h) == hp[MemoryStorage_get(m, h)[1].body.buffer]

\* C32. No aliasing in MemoryStorage: a step that is not an operation of
\* the store, such as the caller writing to the buffer it passed to put or
\* to the body an earlier get returned, does not change the bytes a get of
\* a stored digest returns.
C32_NoAliasing ==
  [][storage' = storage =>
       \A n \in DOMAIN storage :
         GetBytes(storage', heap', storage[n].key)
           = GetBytes(storage, heap, storage[n].key)]_vars

====
